---- MODULE Spec2Model ----
(***************************************************************************)
(* Model of app.js: an Express service with three routes over one JSON    *)
(* file (data.json).  Every request is an async handler: it suspends at   *)
(* `await readData()` and, for POST, at `await writeData(data)`; other    *)
(* requests run between these points.  fs.writeFile opens the file with   *)
(* flag 'w' (which truncates it) and writes the text afterwards, so a     *)
(* save is two file-system steps.                                          *)
(***************************************************************************)
EXTENDS Integers, Sequences, FiniteSets, TLC

(* Number of requests the service receives in one behaviour. *)
NReq == 2

Reqs == 1..NReq

-----------------------------------------------------------------------------
(* JavaScript scalars: undefined, a number, NaN, a string (a sequence of   *)
(* characters).  One record shape for all of them.                          *)

Undef == [t |-> "undef", n |-> 0, s |-> <<>>]
NaN == [t |-> "nan", n |-> 0, s |-> <<>>]
Num(k) == [t |-> "num", n |-> k, s |-> <<>>]
Str(cs) == [t |-> "str", n |-> 0, s |-> cs]

(* The === of `item.id === id` (app.js:90): same type and same value;      *)
(* NaN is equal to nothing, itself included.                                *)
StrictEq(a, b) == a.t = b.t /\ a.t # "nan" /\ a = b

(* JavaScript values that can be an item or the whole collection: an       *)
(* object with the properties id and name (either may be missing), or an   *)
(* array, which like any JavaScript object can also carry an `id`          *)
(* property next to its elements.                                           *)
Obj(id, name) == [kind |-> "obj", id |-> id, name |-> name, items |-> <<>>]
Arr(items) == [kind |-> "arr", id |-> Undef, name |-> Undef, items |-> items]

-----------------------------------------------------------------------------
(* JSON text, as a sequence of tokens.  Punctuation and property names are  *)
(* tokens of their own; a scalar is its own token.  White space and commas  *)
(* are not modelled, and an object's properties are written id first.       *)

Tok(p) == [t |-> p, n |-> 0, s |-> <<>>]
LB == Tok("[")
RB == Tok("]")
LC == Tok("{")
RC == Tok("}")
KId == Tok("id")
KName == Tok("name")
KMessage == Tok("message")

IsScalarTok(tk) == tk.t \in {"num", "str"}

(* JSON.stringify (app.js:26, and res.json at 61, 92, 94, 126).  An array  *)
(* is written as its elements only: a property set on the array object is  *)
(* not part of the text.  A property whose value is undefined is omitted.  *)
RECURSIVE Stringify(_)
RECURSIVE StringifyAll(_)
StringifyAll(vs) ==
    IF vs = <<>> THEN <<>> ELSE Stringify(Head(vs)) \o StringifyAll(Tail(vs))

StringifyMut(v) ==
    IF v.kind = "arr"
    THEN <<LB>> \o StringifyAll(v.items) \o <<RB>>
    ELSE <<LC>> \o (IF v.id.t = "undef" THEN <<>> ELSE <<KId, v.id>>) \o <<RC>>

Stringify(v) ==
    IF v.kind = "arr"
    THEN <<LB>> \o StringifyAll(v.items) \o <<RB>>
    ELSE <<LC>>
         \o (IF v.id.t = "undef" THEN <<>> ELSE <<KId, v.id>>)
         \o (IF v.name.t = "undef" THEN <<>> ELSE <<KName, v.name>>)
         \o <<RC>>

(* JSON.parse (app.js:18): a recursive-descent parse of the token text.    *)
(* The result says whether the text is one complete JSON value.             *)
ParseFail == [ok |-> FALSE, val |-> Arr(<<>>), next |-> 0]

ParseMembers(text, i) ==
    LET hasId == i + 1 <= Len(text) /\ text[i] = KId /\ IsScalarTok(text[i + 1])
        j == IF hasId THEN i + 2 ELSE i
        hasName == j + 1 <= Len(text) /\ text[j] = KName /\ IsScalarTok(text[j + 1])
        k == IF hasName THEN j + 2 ELSE j
    IN  IF k <= Len(text) /\ text[k] = RC
        THEN [ok |-> TRUE,
              val |-> Obj(IF hasId THEN text[i + 1] ELSE Undef,
                          IF hasName THEN text[j + 1] ELSE Undef),
              next |-> k + 1]
        ELSE ParseFail

RECURSIVE ParseValue(_, _)
RECURSIVE ParseElems(_, _, _)
ParseElems(text, i, acc) ==
    IF i > Len(text) THEN ParseFail
    ELSE IF text[i] = RB THEN [ok |-> TRUE, val |-> Arr(acc), next |-> i + 1]
    ELSE LET r == ParseValue(text, i)
         IN  IF r.ok THEN ParseElems(text, r.next, Append(acc, r.val)) ELSE ParseFail

ParseValue(text, i) ==
    IF i > Len(text) THEN ParseFail
    ELSE IF text[i] = LB THEN ParseElems(text, i + 1, <<>>)
    ELSE IF text[i] = LC THEN ParseMembers(text, i + 1)
    ELSE ParseFail

JSONparse(text) ==
    LET r == ParseValue(text, 1)
    IN  IF r.ok /\ r.next = Len(text) + 1 THEN r ELSE ParseFail

-----------------------------------------------------------------------------
(* parseInt(req.params.id) (app.js:88), no radix given: leading blanks, an  *)
(* optional sign, an optional 0x prefix (then hexadecimal), then the        *)
(* longest prefix of digits; NaN when there is no digit.                    *)

Digits == <<"0", "1", "2", "3", "4", "5", "6", "7", "8", "9",
            "a", "b", "c", "d", "e", "f">>

DigitVal(c) ==
    IF \E d \in 1..Len(Digits) : Digits[d] = c
    THEN (CHOOSE d \in 1..Len(Digits) : Digits[d] = c) - 1
    ELSE Len(Digits)

RECURSIVE DigitsPrefix(_, _, _, _)
(* [any |-> a digit was read, val |-> its value] of the digits of cs from i *)
DigitsPrefix(cs, i, radix, acc) ==
    IF i <= Len(cs) /\ DigitVal(cs[i]) < radix
    THEN DigitsPrefix(cs, i + 1, radix, [any |-> TRUE, val |-> acc.val * radix + DigitVal(cs[i])])
    ELSE acc

RECURSIVE SkipBlanks(_, _)
SkipBlanks(cs, i) == IF i <= Len(cs) /\ cs[i] = " " THEN SkipBlanks(cs, i + 1) ELSE i

parseInt(cs) ==
    LET i == SkipBlanks(cs, 1)
        signed == i <= Len(cs) /\ cs[i] \in {"+", "-"}
        neg == signed /\ cs[i] = "-"
        j == IF signed THEN i + 1 ELSE i
        hex == j + 1 <= Len(cs) /\ cs[j] = "0" /\ cs[j + 1] \in {"x", "X"}
        r == IF hex THEN DigitsPrefix(cs, j + 2, 16, [any |-> FALSE, val |-> 0])
             ELSE DigitsPrefix(cs, j, 10, [any |-> FALSE, val |-> 0])
    IN  IF r.any THEN Num(IF neg THEN 0 - r.val ELSE r.val) ELSE NaN

-----------------------------------------------------------------------------
(* The backing document data.json (app.js:13).  It may be absent, present   *)
(* but rejected by fs.readFile (too large to read, say), or present with    *)
(* some text.  Its items may carry the integer ids the schema annotation    *)
(* describes (app.js:36-38) as well as the strings POST /items assigns.     *)

Missing == [state |-> "missing", text |-> <<>>]
Unreadable == [state |-> "unreadable", text |-> <<>>]
File(text) == [state |-> "ok", text |-> text]

(* fs.readFile(dataFilePath, 'utf8') (app.js:17): the text, or a throw.     *)
readFile(d) == [ok |-> d.state = "ok", text |-> d.text]

(* The catch branch of readData is taken (app.js:19-21).                    *)
ReadThrows(d) == ~readFile(d).ok \/ ~JSONparse(readFile(d).text).ok

readDataMut(d) == IF ReadThrows(d) THEN Obj(Undef, Undef) ELSE JSONparse(readFile(d).text).val

(* readData (app.js:15-22): whatever JSON.parse returns, [] on any throw.   *)
readData(d) == IF ReadThrows(d) THEN Arr(<<>>) ELSE JSONparse(readFile(d).text).val

(* fs.writeFile(dataFilePath, text, 'utf8') (app.js:26) is open(path, 'w'), *)
(* which creates the file or cuts it to length 0, and then a write of the   *)
(* text at the start of the file.  What another writer put behind the end   *)
(* of the new text in the meantime stays in the file.                       *)
TruncateMut(text) == text

Truncate(text) == <<>>

Overlay(new, old) ==
    IF Len(old) > Len(new) THEN new \o SubSeq(old, Len(new) + 1, Len(old)) ELSE new

(* uuidv4() (app.js:122): a random token no earlier call returned.  Tokens  *)
(* are short here, one for each request; one of them starts with a decimal  *)
(* digit, as a UUID may.  Tokens that parseInt reads alike differ in        *)
(* nothing the program looks at, so of those the first unused one is drawn. *)
Tokens == <<<<"1", "c">>, <<"a", "7">>, <<"b", "e">>, <<"c", "4">>, <<"f", "0">>>>
UUIDs == {Tokens[i] : i \in 1..(IF NReq < Len(Tokens) THEN NReq ELSE Len(Tokens))}
TokenIndex(u) == CHOOSE i \in 1..Len(Tokens) : Tokens[i] = u

uuidv4(used) ==
    {u \in UUIDs \ used :
        \A v \in UUIDs \ used : parseInt(v) = parseInt(u) => TokenIndex(u) <= TokenIndex(v)}

(* newItem.id = uuidv4() (app.js:122).                                      *)
AssignIdMut(item, u) == IF item.id.t = "undef" THEN [item EXCEPT !.id = Str(u)] ELSE item

AssignId(item, u) == [item EXCEPT !.id = Str(u)]

(* data.push(newItem) (app.js:124).                                         *)
PushMut(data, item) == [data EXCEPT !.items = <<item>> \o @]

Push(data, item) == [data EXCEPT !.items = Append(@, item)]

(* data.find(item => item.id === id) (app.js:90): the first match.          *)
RECURSIVE Find(_, _)
Find(items, id) ==
    IF items = <<>> THEN [found |-> FALSE, item |-> Obj(Undef, Undef)]
    ELSE IF StrictEq(Head(items).id, id) THEN [found |-> TRUE, item |-> Head(items)]
    ELSE Find(Tail(items), id)

(* Responses.  Status 0: none yet.  Status 500: the handler threw, the     *)
(* client gets no body from it (an error page or a dropped connection).    *)
NoReply == [status |-> 0, body |-> <<>>]
Failure == [status |-> 500, body |-> <<>>]
Json(status, v) == [status |-> status, body |-> Stringify(v)]
NotFound == [status |-> 404, body |-> <<LC, KMessage, Str(<<"Item not found">>), RC>>]

(* app.get('/items') after the await (app.js:61).                           *)
ListReply(data) == Json(200, data)

(* app.get('/items/:id') after the await (app.js:90-95).  data.find is not  *)
(* a function when the document holds a JSON object: the handler throws.    *)
GetReply(data, id) ==
    IF data.kind # "arr" THEN Failure
    ELSE IF Find(data.items, id).found THEN Json(200, Find(data.items, id).item)
    ELSE NotFound

(* app.post('/items') from `await writeData(data)` on (app.js:125-126):     *)
(* a rejected writeData leaves the handler before res.status(201).          *)
PostReplyMut(written, item) == Json(201, item)

PostReply(written, item) == IF written THEN Json(201, item) ELSE Failure

-----------------------------------------------------------------------------
(* Inputs.                                                                  *)

InitDocs ==
    {Missing, Unreadable, File(<<LC>>),
     File(Stringify(Arr(<<>>))),
     File(Stringify(Arr(<<Obj(Num(1), Str(<<"a">>)), Obj(Num(2), Undef)>>))),
     File(Stringify(Obj(Undef, Undef)))}

(* Path segments of GET /items/{id}.                                        *)
Paths == UUIDs \cup {<<"1">>}

(* Bodies express.json() hands to the handler (app.js:11, 118): an object   *)
(* with or without id and name, or an array.  A client can send an id a     *)
(* 201 response has shown, not one uuidv4 has yet to draw.                  *)
Bodies(shown) ==
    {Obj(Undef, Str(<<"w">>)), Obj(Num(1), Undef), Arr(<<>>)}
    \cup {Obj(Str(u), Undef) : u \in shown}

-----------------------------------------------------------------------------
VARIABLES
    doc,      \* data.json
    issued,   \* the tokens uuidv4 has returned
    seen,     \* the tokens a 201 response has shown to a client
    pc,       \* where each request's handler is
    kind,     \* "list", "get" or "post"
    path,     \* req.params.id
    body,     \* req.body
    loaded,   \* what readData returned to the handler
    newItem,  \* newItem after line 122
    resp,     \* what the client got
    obs,      \* per request: what was the case at its steps (history)
    last,     \* the request that finished last (history)
    saved     \* the collection of the last undisturbed save (history)

vars == <<doc, issued, seen, pc, kind, path, body, loaded, newItem, resp, obs, last, saved>>

NoSave == [set |-> FALSE, c |-> Arr(<<>>)]

NoLast ==
    [kind |-> "none", status |-> 0, ack |-> <<>>, prev |-> Arr(<<>>),
     uuid |-> <<>>, alone |-> FALSE, pending |-> {}]

NoObs ==
    [alone |-> FALSE,        \* no other request was in flight during this one
     pred |-> NoLast,        \* for a GET: the request that had finished last when it was served
     docAtRead |-> Missing,  \* the document when readData read it
     roundTrip |-> NoSave,   \* the undisturbed save readData read back, if any
     during |-> {},          \* the saves in progress when readData read
     uuid |-> <<>>,          \* what uuidv4 returned
     before |-> Arr(<<>>),   \* the collection in the document when the save began
     cleanSave |-> FALSE,    \* no other save overlapped this one
     pending |-> {},         \* the POSTs that had loaded and not yet saved when the save began
     prior |-> NoLast,       \* the request that had finished last when the save ended
     docAfter |-> Missing,   \* the document right after the handler's last file step
     saveFailed |-> FALSE]   \* writeData rejected

InFlight(r) == pc[r] \in {"open", "write"}

(* What a save in progress is about to leave in the document.               *)
Data(r) == Push(loaded[r], newItem[r])

(* A handler that has answered and returned is gone with its locals: the    *)
(* model keeps a finished request for one step, then forgets it.            *)
Live(f, blank) == [q \in Reqs |-> IF pc[q] = "done" THEN blank ELSE f[q]]

NoBody == Obj(Undef, Undef)

(* The history entry of request r as it finishes; only a POST that was     *)
(* answered 201 is remembered in detail.                                    *)
Finished(r) ==
    IF kind'[r] = "post" /\ resp'[r].status = 201
    THEN [kind |-> "post", status |-> 201, ack |-> resp'[r].body,
          prev |-> loaded'[r], uuid |-> obs'[r].uuid, alone |-> obs'[r].alone,
          pending |-> obs'[r].pending]
    ELSE [NoLast EXCEPT !.kind = "other"]

Init ==
    /\ doc \in InitDocs
    /\ issued = {}
    /\ seen = {}
    /\ pc = [r \in Reqs |-> "idle"]
    /\ kind = [r \in Reqs |-> "none"]
    /\ path = [r \in Reqs |-> <<>>]
    /\ body = [r \in Reqs |-> NoBody]
    /\ loaded = [r \in Reqs |-> Arr(<<>>)]
    /\ newItem = [r \in Reqs |-> NoBody]
    /\ resp = [r \in Reqs |-> NoReply]
    /\ obs = [r \in Reqs |-> NoObs]
    /\ last = NoLast
    /\ saved = NoSave

(* Request r is served: the handler runs up to `await readData()` and       *)
(* readData reads the document.  The part of the handler before the await   *)
(* touches nothing shared, so it is one step with the read.                 *)
Serve(r, k, p, b, u) ==
    /\ pc[r] = "idle"
    /\ \A q \in Reqs : q < r => pc[q] # "idle"
    /\ kind' = [Live(kind, "none") EXCEPT ![r] = k]
    /\ path' = [Live(path, <<>>) EXCEPT ![r] = p]
    /\ body' = [Live(body, NoBody) EXCEPT ![r] = b]
    /\ loaded' = [Live(loaded, Arr(<<>>)) EXCEPT ![r] = readData(doc)]
    /\ obs' = [q \in Reqs |->
                 IF q = r
                 THEN [NoObs EXCEPT
                         !.alone = \A o \in Reqs : ~InFlight(o),
                         !.pred = IF k = "post" THEN NoLast ELSE last,
                         !.docAtRead = doc,
                         !.roundTrip = saved,
                         !.during = {[before |-> obs[o].before,
                                      after |-> JSONparse(Stringify(Data(o))).val] :
                                     o \in {o \in Reqs : pc[o] = "write"}},
                         !.uuid = u,
                         !.docAfter = doc]
                 ELSE IF InFlight(q) THEN [obs[q] EXCEPT !.alone = FALSE]
                 ELSE NoObs]
    /\ UNCHANGED <<doc, saved>>

(* GET /items (app.js:59-62).                                               *)
List(r) ==
    /\ Serve(r, "list", <<>>, NoBody, <<>>)
    /\ resp' = [Live(resp, NoReply) EXCEPT ![r] = ListReply(readData(doc))]
    /\ pc' = [Live(pc, "gone") EXCEPT ![r] = "done"]
    /\ newItem' = Live(newItem, NoBody)
    /\ last' = Finished(r)
    /\ UNCHANGED <<issued, seen>>

(* GET /items/:id (app.js:87-96).                                           *)
Get(r) ==
    \E p \in Paths :
        /\ Serve(r, "get", p, NoBody, <<>>)
        /\ resp' = [Live(resp, NoReply) EXCEPT ![r] = GetReply(readData(doc), parseInt(p))]
        /\ pc' = [Live(pc, "gone") EXCEPT ![r] = "done"]
        /\ newItem' = Live(newItem, NoBody)
        /\ last' = Finished(r)
        /\ UNCHANGED <<issued, seen>>

(* POST /items, lines 118-125 up to the call of fs.writeFile: the id is     *)
(* set, the item is pushed.  data.push is not a function when the document  *)
(* holds a JSON object: the handler throws, after uuidv4 was called.        *)
Post(r) ==
    \E b \in Bodies(seen), u \in uuidv4(issued) :
        /\ Serve(r, "post", <<>>, b, u)
        /\ issued' = issued \cup {u}
        /\ seen' = seen
        /\ newItem' = [Live(newItem, NoBody) EXCEPT ![r] = AssignId(b, u)]
        /\ IF readData(doc).kind = "arr"
           THEN /\ pc' = [Live(pc, "gone") EXCEPT ![r] = "open"]
                /\ resp' = Live(resp, NoReply)
                /\ last' = last
           ELSE /\ pc' = [Live(pc, "gone") EXCEPT ![r] = "done"]
                /\ resp' = [Live(resp, NoReply) EXCEPT ![r] = Failure]
                /\ last' = Finished(r)

(* The id a response shows to the client, if it shows one.                  *)
Shown(reply) ==
    IF reply.status = 201 /\ JSONparse(reply.body).val.id.t = "str"
    THEN {JSONparse(reply.body).val.id.s}
    ELSE {}

(* What a file step of request r leaves alone.                              *)
Same ==
    /\ kind' = Live(kind, "none")
    /\ path' = Live(path, <<>>)
    /\ body' = Live(body, NoBody)
    /\ loaded' = Live(loaded, Arr(<<>>))
    /\ newItem' = Live(newItem, NoBody)
    /\ UNCHANGED issued

(* The history after a file step of r: it disturbs the saves in progress.   *)
Step(r, mine) ==
    [q \in Reqs |->
       IF q = r THEN mine
       ELSE IF pc[q] = "write" THEN [obs[q] EXCEPT !.cleanSave = FALSE]
       ELSE IF pc[q] = "done" THEN NoObs
       ELSE obs[q]]

(* fs.writeFile, first step: the file is opened with flag 'w'.              *)
Open(r) ==
    /\ pc[r] = "open"
    /\ doc' = File(Truncate(doc.text))
    /\ pc' = [Live(pc, "gone") EXCEPT ![r] = "write"]
    /\ resp' = Live(resp, NoReply)
    /\ obs' = Step(r, [obs[r] EXCEPT
                         !.before = readData(doc),
                         !.cleanSave = \A o \in Reqs : pc[o] # "write",
                         !.pending = {o \in Reqs \ {r} : pc[o] = "open"}])
    /\ saved' = NoSave
    /\ last' = last
    /\ seen' = seen
    /\ Same

(* The open is refused: writeData rejects, the document is as it was.       *)
OpenFail(r) ==
    /\ pc[r] = "open"
    /\ doc' = doc
    /\ pc' = [Live(pc, "gone") EXCEPT ![r] = "done"]
    /\ resp' = [Live(resp, NoReply) EXCEPT ![r] = PostReply(FALSE, newItem[r])]
    /\ obs' = [Live(obs, NoObs) EXCEPT ![r] = [@ EXCEPT !.saveFailed = TRUE, !.docAfter = doc]]
    /\ saved' = saved
    /\ seen' = seen
    /\ Same
    /\ last' = Finished(r)

(* fs.writeFile, second step: the text is written; the handler goes on to   *)
(* line 126.                                                                *)
Write(r) ==
    /\ pc[r] = "write"
    /\ doc' = File(Overlay(Stringify(Data(r)), doc.text))
    /\ pc' = [Live(pc, "gone") EXCEPT ![r] = "done"]
    /\ resp' = [Live(resp, NoReply) EXCEPT ![r] = PostReply(TRUE, newItem[r])]
    /\ obs' = Step(r, [obs[r] EXCEPT !.docAfter = doc', !.prior = last])
    /\ saved' = IF obs[r].cleanSave THEN [set |-> TRUE, c |-> Data(r)] ELSE NoSave
    /\ seen' = seen \cup Shown(resp'[r])
    /\ Same
    /\ last' = Finished(r)

(* The write is refused (a full disk, say) and nothing of the text is in   *)
(* the file: writeData rejects, the document stays as the open left it.     *)
WriteFail(r) ==
    /\ pc[r] = "write"
    /\ doc' = doc
    /\ pc' = [Live(pc, "gone") EXCEPT ![r] = "done"]
    /\ resp' = [Live(resp, NoReply) EXCEPT ![r] = PostReply(FALSE, newItem[r])]
    /\ obs' = Step(r, [obs[r] EXCEPT !.saveFailed = TRUE, !.docAfter = doc'])
    /\ saved' = NoSave
    /\ seen' = seen
    /\ Same
    /\ last' = Finished(r)

Next ==
    \E r \in Reqs :
        \/ List(r)
        \/ Get(r)
        \/ Post(r)
        \/ Open(r)
        \/ OpenFail(r)
        \/ Write(r)
        \/ WriteFail(r)

Spec == Init /\ [][Next]_vars

-----------------------------------------------------------------------------
(* Properties.                                                              *)

(* Request r has been answered (or has failed) in this state.               *)
Answered(r) == pc[r] = "done"

(* The decimal digits of n >= 0.                                            *)
RECURSIVE Decimal(_)
Decimal(n) ==
    IF n < 10 THEN <<Digits[n + 1]>> ELSE Decimal(n \div 10) \o <<Digits[(n % 10) + 1]>>

(* The id of a stored item is the id named in the path.                     *)
SamePathId(id, p) ==
    \/ id.t = "str" /\ id.s = p
    \/ id.t = "num" /\ id.n >= 0 /\ Decimal(id.n) = p

HasId(data, p) ==
    data.kind = "arr" /\ \E i \in 1..Len(data.items) : SamePathId(data.items[i].id, p)

FirstWithId(data, p) ==
    data.items[CHOOSE i \in 1..Len(data.items) :
                  /\ SamePathId(data.items[i].id, p)
                  /\ \A j \in 1..(i - 1) : ~SamePathId(data.items[j].id, p)]

(* The document cannot be loaded: absent, rejected by readFile, or not the  *)
(* text of a JSON value.                                                    *)
Unloadable(d) == d.state # "ok" \/ ~JSONparse(d.text).ok

(* The item the 201 response shows to the client.                           *)
Ack(r) == JSONparse(resp[r].body).val

(* The last record of the text the POST handler hands to fs.writeFile.      *)
Stored(r) ==
    LET c == JSONparse(Stringify(Data(r))).val IN c.items[Len(c.items)]

Created(r) == Answered(r) /\ kind[r] = "post" /\ resp[r].status = 201

(* C1: a GET /items/{id} whose id is the id of a stored item is answered    *)
(* 200 with that record.                                                    *)
C1_StoredIdIsFound ==
    \A r \in Reqs :
        Answered(r) /\ kind[r] = "get" /\ HasId(loaded[r], path[r])
        => /\ resp[r].status = 200
           /\ JSONparse(resp[r].body).ok
           /\ JSONparse(resp[r].body).val = FirstWithId(loaded[r], path[r])

(* C2, as claimed: for every JSON body, the 201 response and the record     *)
(* appended to the collection carry the generated id, which is not the id   *)
(* the client sent.                                                         *)
C2_EveryBodyGetsTheGeneratedId ==
    \A r \in Reqs :
        Created(r)
        => /\ Ack(r).id = Str(obs[r].uuid)
           /\ Stored(r).id = Str(obs[r].uuid)
           /\ Ack(r).id # body[r].id

(* C2, amended: the same for every body that is a JSON object.              *)
C2_ObjectBodyGetsTheGeneratedId ==
    \A r \in Reqs :
        Created(r) /\ body[r].kind = "obj"
        => /\ Ack(r).id = Str(obs[r].uuid)
           /\ Stored(r).id = Str(obs[r].uuid)
           /\ Ack(r).id # body[r].id

(* A POST was answered 201 whose body carried an id an earlier POST issued. *)
C2_Witness ==
    \E r \in Reqs : Created(r) /\ body[r].kind = "obj" /\ body[r].id.t = "str"

(* C3: with requests handled one after another, the GET /items that follows *)
(* a POST answered 201 returns the items that POST loaded, in their order,  *)
(* and then the item the POST returned.                                     *)
C3_ListAfterCreate ==
    \A r \in Reqs :
        /\ Answered(r) /\ kind[r] = "list" /\ obs[r].alone
        /\ obs[r].pred.kind = "post" /\ obs[r].pred.status = 201 /\ obs[r].pred.alone
        => /\ resp[r].status = 200
           /\ JSONparse(resp[r].body).ok
           /\ JSONparse(resp[r].body).val =
                Arr(Append(obs[r].pred.prev.items, JSONparse(obs[r].pred.ack).val))

(* Such a GET /items was answered, after a POST that found items stored.    *)
C3_Witness ==
    \E r \in Reqs :
        /\ Answered(r) /\ kind[r] = "list" /\ obs[r].alone
        /\ obs[r].pred.kind = "post" /\ obs[r].pred.status = 201 /\ obs[r].pred.alone
        /\ Len(obs[r].pred.prev.items) >= 2

(* C4: a GET /items/{id} whose id is the id of no stored item is answered   *)
(* 404 with the message, and the document is as it was.                     *)
C4_UnknownIdIsNotFound ==
    \A r \in Reqs :
        /\ Answered(r) /\ kind[r] = "get"
        /\ loaded[r].kind = "arr" /\ ~HasId(loaded[r], path[r])
        => /\ resp[r] = [status |-> 404,
                         body |-> <<LC, KMessage, Str(<<"Item not found">>), RC>>]
           /\ obs[r].docAfter = obs[r].docAtRead

(* C5: when the document cannot be loaded, readData returns [] and          *)
(* GET /items is answered 200 with [].                                      *)
C5_UnloadableListsEmpty ==
    \A r \in Reqs :
        Answered(r) /\ kind[r] = "list" /\ Unloadable(obs[r].docAtRead)
        => /\ loaded[r] = Arr(<<>>)
           /\ resp[r] = [status |-> 200, body |-> <<LB, RB>>]

(* A GET /items was answered from a document whose text is not JSON.        *)
C5_Witness ==
    \E r \in Reqs :
        /\ Answered(r) /\ kind[r] = "list"
        /\ obs[r].docAtRead.state = "ok" /\ ~JSONparse(obs[r].docAtRead.text).ok

(* C6: a POST whose writeData rejected is never answered 201 and its        *)
(* client gets no body.                                                     *)
C6_NoAckWhenSaveFails ==
    \A r \in Reqs :
        Answered(r) /\ kind[r] = "post" /\ obs[r].saveFailed
        => resp[r].status # 201 /\ resp[r].body = <<>>

(* A POST has ended with writeData rejecting.                               *)
C6_Witness ==
    \E r \in Reqs : Answered(r) /\ kind[r] = "post" /\ obs[r].saveFailed

(* No array among the items of c carries a property of its own.             *)
NoOwnProps(c) ==
    \A i \in 1..Len(c.items) : c.items[i].kind = "arr" => c.items[i].id = Undef

(* The handler of r has its readData result.                                *)
HasLoaded(r) == pc[r] \in {"open", "write", "done"}

(* C7, as claimed: readData after an undisturbed successful writeData(c),   *)
(* with no file step in between, returns c.                                 *)
C7_RoundTrip ==
    \A r \in Reqs :
        HasLoaded(r) /\ obs[r].roundTrip.set => loaded[r] = obs[r].roundTrip.c

(* C7, amended: the same for every c in which no array item carries a       *)
(* property of its own (as the id line 122 sets on an array body).          *)
C7_RoundTripOfJson ==
    \A r \in Reqs :
        HasLoaded(r) /\ obs[r].roundTrip.set /\ NoOwnProps(obs[r].roundTrip.c)
        => loaded[r] = obs[r].roundTrip.c

(* A readData read back a saved collection of three items or more.          *)
C7_Witness ==
    \E r \in Reqs :
        /\ HasLoaded(r) /\ obs[r].roundTrip.set /\ NoOwnProps(obs[r].roundTrip.c)
        /\ Len(obs[r].roundTrip.c.items) >= 3

(* POST p was answered 201, POST q had loaded and not begun to save when    *)
(* p's save began, q's save was undisturbed and q is now answered 201.      *)
LostUpdate(q) ==
    /\ Created(q) /\ obs[q].cleanSave
    /\ obs[q].prior.kind = "post" /\ obs[q].prior.status = 201
    /\ q \in obs[q].prior.pending

(* C8: in that interleaving the document holds what q loaded and q's item,  *)
(* and no item with the id p was answered with.                             *)
C8_LostUpdateLosesFirstItem ==
    \A q \in Reqs :
        LostUpdate(q)
        => /\ JSONparse(doc.text).ok
           /\ JSONparse(doc.text).val = Arr(Append(loaded[q].items, Ack(q)))
           /\ \A i \in 1..Len(JSONparse(doc.text).val.items) :
                JSONparse(doc.text).val.items[i].id # Str(obs[q].prior.uuid)

(* The interleaving happens: both loaded the same collection, both were     *)
(* answered 201, the document has one item more, not two.                   *)
C8_Witness ==
    \E q \in Reqs :
        /\ LostUpdate(q)
        /\ obs[q].prior.prev = loaded[q]
        /\ JSONparse(doc.text).ok
        /\ Len(JSONparse(doc.text).val.items) = Len(loaded[q].items) + 1

(* C9: a GET whose readData runs while a POST's save is in progress gets    *)
(* the collection as it was before that save or as it is after it.          *)
C9_ReadSeesBeforeOrAfter ==
    \A r \in Reqs :
        Answered(r) /\ kind[r] \in {"list", "get"}
        => \A w \in obs[r].during : loaded[r] \in {w.before, w.after}

(* C10: a POST that could not load the document and whose save succeeded    *)
(* is answered 201 and leaves a document of exactly one item, its own.      *)
C10_FailedLoadLeavesOneItem ==
    \A r \in Reqs :
        /\ Answered(r) /\ kind[r] = "post"
        /\ Unloadable(obs[r].docAtRead) /\ ~obs[r].saveFailed
        => /\ resp[r].status = 201
           /\ JSONparse(doc.text).ok
           /\ JSONparse(doc.text).val = Arr(<<Ack(r)>>)

====
